---- MODULE Spec2Model ----
(***************************************************************************)
(* Patient-record access control and anonymization core                    *)
(* (app/services/patient_service.py, app/services/log_service.py,          *)
(* app/db.py).  Callers are the concurrent sessions of the dashboard; each *)
(* service call is a sequence of steps split at its accesses to the SQLite *)
(* store.  A `with get_connection()` block is one connection: a SELECT     *)
(* runs outside any transaction (sqlite3's default transaction control     *)
(* opens a transaction only before INSERT/UPDATE/DELETE), the first write  *)
(* statement takes the database write lock, and leaving the block commits. *)
(***************************************************************************)
EXTENDS Integers, Sequences, FiniteSets, Bags, TLC

(* ------------------------------ bounds -------------------------------- *)
\* rows the patients table may ever receive (caps the AUTOINCREMENT counter)
MaxPatients == 2
\* rows the logs table may receive
MaxLogs == 3

\* concurrent sessions calling the service
Procs == {"s1", "s2"}

(* ------------------------------ values -------------------------------- *)
Null == "<None>"
NoProc == "<free>"
\* a missing or None user_id (the users table numbers its rows from 1)
NoUid == 0

\* A string that may be a Fernet token: text is the plaintext, enc tells
\* whether it is the token made from text under key with nonce iv.
Str(s) == [enc |-> FALSE, key |-> Null, iv |-> 0, text |-> s]
Token(k, i, s) == [enc |-> TRUE, key |-> k, iv |-> i, text |-> s]
InvalidToken == [enc |-> TRUE, key |-> Null, iv |-> 0, text |-> "<InvalidToken>"]

\* the (name, contact, diagnosis) triples the callers supply
RawInputs ==
    { [name |-> "Jane Doe", contact |-> <<"5", "5", "-", "0", "1", "0", "7">>,
       diagnosis |-> Str("flu")],
      [name |-> "John Roe", contact |-> <<"a", "9", "b">>,
       diagnosis |-> Str("asthma")] }
Keys == {Null, "k1"}
Nonces == {0, 1}
\* hash seeds an interpreter process may start with
Seeds == {0, 1}

\* acted_by / requested_by: None, or a dict whose keys may be missing
Identity(u, r) == [is_none |-> FALSE, user_id |-> u, role |-> r]
NoIdentity == [is_none |-> TRUE, user_id |-> NoUid, role |-> Null]
Identities ==
    { NoIdentity,
      Identity(1, "admin"), Identity(2, "doctor"), Identity(3, "receptionist"),
      Identity(NoUid, "doctor") }

ViewArgs == {"raw", "anonymized", "summary"}

(* ------------------------------- state -------------------------------- *)
VARIABLES
    patients,    \* committed rows of the patients table, by patient_id
    seq,         \* AUTOINCREMENT counter of the patients table
    logs,        \* committed rows of the logs table, as a bag
    lock,        \* the session holding the database write lock, or NoProc
    txn,         \* the patients table as seen inside the open write transaction
    FERNET,      \* the process's codec key, Null when none is configured
    hash_seed,   \* the process's seed of the builtin str hash
    pc,          \* where each session is in its current call
    local,       \* the current call's arguments and locals
    ret          \* what the step just taken returned or raised to its caller

vars == <<patients, seq, logs, lock, txn, FERNET, hash_seed, pc, local, ret>>

(* --------------------------- access policy ---------------------------- *)
RAW_VIEW_ROLES == {"admin", "receptionist"}
ANON_VIEW_ROLES == {"admin", "doctor"}
WRITE_ROLES == {"admin", "receptionist"}

\* a delete policy that also admits receptionists
DELETE_ROLES_Widened == {"admin", "receptionist"}

DELETE_ROLES == {"admin"}
REFRESH_ROLES == {"admin"}

\* Python truthiness of acted_by: None and the empty dict are falsy
Truthy(acted_by) ==
    ~acted_by.is_none /\ (acted_by.user_id # NoUid \/ acted_by.role # Null)

\* a role check that lets a caller without identity through
RoleAllowed_NoneSlips(acted_by, allowed_roles) ==
    ~Truthy(acted_by) \/ acted_by.role \in allowed_roles

\* _require_role's test: TRUE when the call goes on, FALSE when it is denied
RoleAllowed(acted_by, allowed_roles) ==
    Truthy(acted_by) /\ acted_by.role \in allowed_roles

\* the role set each gated operation hands to _require_role
AllowedRoles(op, view) ==
    CASE op = "list_patients" ->
             IF view = "raw" THEN RAW_VIEW_ROLES ELSE ANON_VIEW_ROLES
      [] op = "create_patient" -> WRITE_ROLES
      [] op = "update_patient" -> WRITE_ROLES
      [] op = "delete_patient" -> DELETE_ROLES
      [] op = "refresh_anonymized_fields" -> REFRESH_ROLES

\* the action text each operation hands to _require_role
DeniedAction(op, view) ==
    CASE op = "list_patients" ->
             IF view = "raw" THEN "view raw patients"
                             ELSE "view anonymized patients"
      [] op = "create_patient" -> "create patients"
      [] op = "update_patient" -> "update patients"
      [] op = "delete_patient" -> "delete patients"
      [] op = "refresh_anonymized_fields" -> "refresh anonymized data"

(* --------------------------- masking engine --------------------------- *)
Abs(n) == IF n < 0 THEN 0 - n ELSE n

DigitChar(d) ==
    CASE d = 0 -> "0" [] d = 1 -> "1" [] d = 2 -> "2" [] d = 3 -> "3"
      [] d = 4 -> "4" [] d = 5 -> "5" [] d = 6 -> "6" [] d = 7 -> "7"
      [] d = 8 -> "8" [] d = 9 -> "9"

IsDigit(c) == c \in {"0", "1", "2", "3", "4", "5", "6", "7", "8", "9"}

\* format(n, "0<width>d") for n >= 0: decimal digits, zero-padded on the left
RECURSIVE ZeroPad(_, _)
ZeroPad(n, width) ==
    IF width <= 1 /\ n < 10
    THEN <<DigitChar(n)>>
    ELSE Append(ZeroPad(n \div 10, width - 1), DigitChar(n % 10))

\* the builtin hash of a str, as one interpreter process computes it: the
\* value depends on the string and on the process's hash seed, which is drawn
\* when the interpreter starts and is fixed for its lifetime; signed
TextCode(s) ==
    CASE s = "Jane Doe" -> 1187 [] s = "John Roe" -> 2903
      [] s = "flu" -> 4409 [] s = "asthma" -> 7129
      [] OTHER -> 9001
PyHash(v) ==
    LET c == TextCode(v.text) + (IF v.enc THEN 13 + v.iv ELSE 0) + 37 * hash_seed
    IN  IF c % 2 = 1 THEN c * 7919 - 80000000 ELSE 31000000 + c * 104729

mask_name(name) ==
    <<"A", "N", "O", "N", "_">> \o ZeroPad(Abs(PyHash(Str(name))) % 10000, 4)

RECURSIVE DigitsOf(_)
DigitsOf(contact) ==
    IF contact = <<>> THEN <<>>
    ELSE IF IsDigit(Head(contact))
         THEN <<Head(contact)>> \o DigitsOf(Tail(contact))
         ELSE DigitsOf(Tail(contact))

\* a slice that keeps the first four digits
LastFour_First(digits) ==
    IF Len(digits) <= 4 THEN digits ELSE SubSeq(digits, 1, 4)

LastFour(digits) ==
    IF Len(digits) <= 4 THEN digits
    ELSE SubSeq(digits, Len(digits) - 3, Len(digits))

mask_contact(contact) ==
    LET last_four == LastFour(DigitsOf(contact))
    IN  <<"X", "X", "X", "-", "X", "X", "X", "-">>
          \o (IF last_four = <<>> THEN <<"0", "0", "0", "0">> ELSE last_four)

mask_diagnosis(diagnosis) ==
    <<"M", "A", "S", "K", "E", "D", "_">>
      \o ZeroPad(Abs(PyHash(diagnosis)) % 1000000, 6)

_anonymized_fields(name, contact, diagnosis) ==
    [anonymized_name |-> mask_name(name),
     anonymized_contact |-> mask_contact(contact),
     diagnosis_masked |-> mask_diagnosis(diagnosis)]

(* ------------------------ confidentiality codec ----------------------- *)
\* FERNET.encrypt draws a fresh nonce; without a key the value is returned
encrypt_sensitive(fernet, iv, value) ==
    IF fernet # Null THEN Token(fernet, iv, value.text) ELSE value

\* a decrypt that hands every value back as it is
decrypt_sensitive_Identity(fernet, value) == value

\* FERNET.decrypt raises InvalidToken unless value is a token of this key
decrypt_sensitive(fernet, value) ==
    IF fernet # Null
    THEN IF value.enc /\ value.key = fernet THEN Str(value.text) ELSE InvalidToken
    ELSE value

(* ---------------------------- initial state ---------------------------- *)
EmptyTable == <<>>

\* a call's arguments and locals
Call(op, who, view, patient_id, raw) ==
    [op |-> op, who |-> who, view |-> view, patient_id |-> patient_id,
     name |-> raw.name, contact |-> raw.contact, diagnosis |-> raw.diagnosis,
     rows |-> <<>>, idx |-> 0]

NoRaw == [name |-> Null, contact |-> <<>>, diagnosis |-> Str(Null)]

NoLocal == Call(Null, NoIdentity, Null, 0, NoRaw)

\* a call ending: the operation, how it ended ("ok" or the exception raised),
\* the id it returned and the records it returned
Returned(call, outcome, id, records) ==
    [op |-> call.op, outcome |-> outcome, id |-> id, records |-> records]

NoReturn == Returned(NoLocal, Null, 0, <<>>)

\* ids a caller may name
PatientIds == 1..MaxPatients

Init ==
    /\ patients = EmptyTable
    /\ seq = 0
    /\ logs = EmptyBag
    /\ lock = NoProc
    /\ txn = EmptyTable
    /\ FERNET \in Keys
    /\ hash_seed = 0
    /\ pc = [p \in Procs |-> "idle"]
    /\ local = [p \in Procs |-> NoLocal]
    /\ ret = NoReturn

(* ------------------------------ audit log ----------------------------- *)
\* an INSERT that replaces the rows of the logs table
log_action_Overwrite(lg, user_id, role, action, details) ==
    SetToBag({[user_id |-> user_id, role |-> role, action |-> action,
               details |-> details]})

\* an INSERT issued twice
log_action_Twice(lg, user_id, role, action, details) ==
    lg (+) SetToBag({[user_id |-> user_id, role |-> role, action |-> action,
                details |-> details]})
       (+) SetToBag({[user_id |-> user_id, role |-> role, action |-> action,
                details |-> details]})

\* log_action: one INSERT into logs in a connection of its own
\* (logs is the bag of those rows: log_id and timestamp, which the store
\* assigns, are not tracked)
log_action(lg, user_id, role, action, details) ==
    lg (+) SetToBag({[user_id |-> user_id, role |-> role, action |-> action,
                details |-> details]})

\* _log_security_event writes only for a caller that carries a user id
SecurityEventLogged(acted_by) == Truthy(acted_by) /\ acted_by.user_id # NoUid

_log_security_event(lg, action, acted_by, details) ==
    IF SecurityEventLogged(acted_by)
    THEN log_action(lg, acted_by.user_id,
                    IF acted_by.role = Null THEN "unknown" ELSE acted_by.role,
                    action, details)
    ELSE lg

(* ---------------------------- row statements -------------------------- *)
\* The rows carry the columns the service computes; date_added and
\* last_updated are filled by the store and are not tracked here.
\* INSERT INTO patients (...) VALUES (...)
InsertedRow(id, name, contact, encrypted_diagnosis, fields) ==
    [patient_id |-> id, name |-> name, contact |-> contact,
     diagnosis |-> encrypted_diagnosis,
     anonymized_name |-> fields.anonymized_name,
     anonymized_contact |-> fields.anonymized_contact,
     diagnosis_masked |-> fields.diagnosis_masked]

\* an UPDATE that writes the raw columns only
UpdatedRow_RawOnly(row, name, contact, encrypted_diagnosis, fields) ==
    [row EXCEPT !.name = name, !.contact = contact,
                !.diagnosis = encrypted_diagnosis]

\* UPDATE patients SET name, contact, diagnosis, anonymized_*, last_updated
UpdatedRow(row, name, contact, encrypted_diagnosis, fields) ==
    [row EXCEPT !.name = name, !.contact = contact,
                !.diagnosis = encrypted_diagnosis,
                !.anonymized_name = fields.anonymized_name,
                !.anonymized_contact = fields.anonymized_contact,
                !.diagnosis_masked = fields.diagnosis_masked]

\* a sweep statement that writes the name mask into the contact column
RemaskedRow_Mixed(row, new_fields) ==
    [row EXCEPT !.anonymized_name = new_fields.anonymized_name,
                !.anonymized_contact = new_fields.anonymized_name,
                !.diagnosis_masked = new_fields.diagnosis_masked]

\* UPDATE patients SET anonymized_*, last_updated (the sweep's statement)
RemaskedRow(row, new_fields) ==
    [row EXCEPT !.anonymized_name = new_fields.anonymized_name,
                !.anonymized_contact = new_fields.anonymized_contact,
                !.diagnosis_masked = new_fields.diagnosis_masked]

\* UPDATE ... WHERE patient_id = ?: the table with that row, if any, replaced
UpdateWhere(table, patient_id, new_row) ==
    [id \in DOMAIN table |-> IF id = patient_id THEN new_row ELSE table[id]]

\* DELETE FROM patients WHERE patient_id = ?
DeleteWhere(table, patient_id) ==
    [id \in DOMAIN table \ {patient_id} |-> table[id]]

\* a connection that commits whatever its block did, however the block ends
get_connection_CommitsAlways(committed, pending, raised) == pending

\* get_connection: what the table holds once the block is left; the block's
\* writes are committed on a normal exit, and dropped when it raised (close()
\* without commit rolls the open transaction back)
get_connection(committed, pending, raised) ==
    IF raised THEN committed ELSE pending

\* a row formatter that hands the stored diagnosis back as it is
_format_patient_row_Stored(fernet, row) == row

\* _format_patient_row: the row with its diagnosis decrypted
_format_patient_row(fernet, row) ==
    [row EXCEPT !.diagnosis = decrypt_sensitive(fernet, row.diagnosis)]

\* the anonymized view's projection of a formatted row
AnonymizedView(r) ==
    [patient_id |-> r.patient_id, anonymized_name |-> r.anonymized_name,
     anonymized_contact |-> r.anonymized_contact,
     diagnosis_masked |-> r.diagnosis_masked]

\* the orders ORDER BY date_added DESC may return: rows added within one
\* second tie and the store picks, so any order of the rows
NewestFirst(table) ==
    LET n == Cardinality(DOMAIN table)
    IN  { s \in [1..n -> DOMAIN table] : \A i, j \in 1..n : i # j => s[i] # s[j] }

\* SELECT patient_id, name, contact, diagnosis FROM patients, in rowid order
RECURSIVE ScanFrom(_, _, _)
ScanFrom(table, id, last) ==
    IF id > last THEN <<>>
    ELSE (IF id \in DOMAIN table
          THEN <<[patient_id |-> id, name |-> table[id].name,
                  contact |-> table[id].contact,
                  diagnosis |-> table[id].diagnosis]>>
          ELSE <<>>) \o ScanFrom(table, id + 1, last)

(* ------------------------------ the calls ----------------------------- *)
Idle(p) == pc[p] = "idle"

\* a call that will write a logs row starts only while the table has room for
\* it and for the rows of the calls under way
HasRoom ==
    BagCardinality(logs) + Cardinality({q \in Procs : pc[q] # "idle"}) < MaxLogs

\* the call ends: its locals go, the caller gets outcome, id and records
Return(p, call, outcome, id, records) ==
    /\ pc' = [pc EXCEPT ![p] = "idle"]
    /\ local' = [local EXCEPT ![p] = NoLocal]
    /\ ret' = Returned(call, outcome, id, records)

\* the call goes on to its next statement
Goto(p, call, label) ==
    /\ pc' = [pc EXCEPT ![p] = label]
    /\ local' = [local EXCEPT ![p] = call]
    /\ ret' = NoReturn

\* _require_role's denial: the security event (a write of its own, for a
\* caller with a user id), then PermissionError
Deny(p, call) ==
    /\ SecurityEventLogged(call.who) => (HasRoom /\ lock = NoProc)
    /\ Return(p, call, "PermissionError", 0, <<>>)
    /\ logs' = _log_security_event(logs, "unauthorized_access", call.who,
                   <<DeniedAction(call.op, call.view), " not permitted">>)
    /\ UNCHANGED <<patients, seq, lock, txn, FERNET, hash_seed>>

\* the audit entry that ends create/update/delete/refresh: acted_by["user_id"]
\* raises KeyError for a caller without one, else log_action inserts the row
AuditAndReturn(p, action, details, id) ==
    LET who == local[p].who IN
    IF who.user_id = NoUid
    THEN /\ Return(p, local[p], "KeyError", 0, <<>>)
         /\ UNCHANGED logs
    ELSE /\ lock = NoProc
         /\ Return(p, local[p], "ok", id, <<>>)
         /\ logs' = log_action(logs, who.user_id, who.role, action, details)

(* list_patients: the view test, _require_role, one SELECT *)
ListPatients(p, view, requested_by) ==
    LET call == Call("list_patients", requested_by, view, 0, NoRaw) IN
    /\ Idle(p)
    /\ IF view \notin {"raw", "anonymized"}
       THEN /\ Return(p, call, "ValueError", 0, <<>>)
            /\ UNCHANGED <<patients, seq, logs, lock, txn, FERNET, hash_seed>>
       ELSE IF ~RoleAllowed(requested_by, AllowedRoles(call.op, view))
       THEN Deny(p, call)
       ELSE /\ \E order \in NewestFirst(patients) :
                 LET records == [i \in DOMAIN order |->
                                   _format_patient_row(FERNET, patients[order[i]])]
                     shown == IF view = "anonymized"
                              THEN [i \in DOMAIN records |->
                                      AnonymizedView(records[i])]
                              ELSE records
                 IN  IF \E i \in DOMAIN records : records[i].diagnosis = InvalidToken
                     THEN Return(p, call, "InvalidToken", 0, <<>>)
                     ELSE Return(p, call, "ok", 0, shown)
            /\ UNCHANGED <<patients, seq, logs, lock, txn, FERNET, hash_seed>>

(* get_patient: no role check, one SELECT *)
\* what get_patient returns from a table: the formatted row, or None (here
\* the empty sequence) when no row has the id
get_patient(fernet, table, patient_id) ==
    IF patient_id \in DOMAIN table
    THEN <<_format_patient_row(fernet, table[patient_id])>>
    ELSE <<>>

GetPatient(p, patient_id) ==
    LET call == Call("get_patient", NoIdentity, Null, patient_id, NoRaw)
        found == get_patient(FERNET, patients, patient_id)
    IN
    /\ Idle(p)
    /\ IF \E i \in DOMAIN found : found[i].diagnosis = InvalidToken
       THEN Return(p, call, "InvalidToken", 0, <<>>)
       ELSE Return(p, call, "ok", 0, found)
    /\ UNCHANGED <<patients, seq, logs, lock, txn, FERNET, hash_seed>>

(* create_patient: _require_role and the INSERT, then the audit entry *)
CreatePatient(p, raw, acted_by) ==
    LET call == Call("create_patient", acted_by, Null, 0, raw)
        patient_id == seq + 1      \* cursor.lastrowid
    IN
    /\ Idle(p)
    /\ IF ~RoleAllowed(acted_by, AllowedRoles(call.op, Null))
       THEN Deny(p, call)
       ELSE /\ HasRoom
            /\ seq < MaxPatients
            /\ lock = NoProc
            /\ Goto(p, [call EXCEPT !.patient_id = patient_id], "create_log")
            /\ seq' = patient_id
            /\ \E iv \in Nonces :
                 LET fields == _anonymized_fields(raw.name, raw.contact,
                                                  raw.diagnosis)
                     encrypted_diagnosis ==
                         encrypt_sensitive(FERNET, iv, raw.diagnosis)
                 IN  patients' =
                          (patient_id :> InsertedRow(patient_id, raw.name,
                               raw.contact, encrypted_diagnosis, fields))
                            @@ patients
            /\ UNCHANGED <<logs, lock, txn, FERNET, hash_seed>>

CreateLog(p) ==
    /\ pc[p] = "create_log"
    /\ AuditAndReturn(p, "create_patient", <<"patient_id=", local[p].patient_id>>,
                      local[p].patient_id)
    /\ UNCHANGED <<patients, seq, lock, txn, FERNET, hash_seed>>

(* update_patient: _require_role and the UPDATE, then the audit entry *)
UpdatePatient(p, patient_id, raw, acted_by) ==
    LET call == Call("update_patient", acted_by, Null, patient_id, raw) IN
    /\ Idle(p)
    /\ IF ~RoleAllowed(acted_by, AllowedRoles(call.op, Null))
       THEN Deny(p, call)
       ELSE /\ HasRoom
            /\ lock = NoProc
            /\ Goto(p, call, "update_log")
            /\ \E iv \in Nonces :
                 LET fields == _anonymized_fields(raw.name, raw.contact,
                                                  raw.diagnosis)
                     encrypted_diagnosis ==
                         encrypt_sensitive(FERNET, iv, raw.diagnosis)
                 IN  patients' =
                       IF patient_id \in DOMAIN patients
                       THEN UpdateWhere(patients, patient_id,
                                UpdatedRow(patients[patient_id], raw.name,
                                    raw.contact, encrypted_diagnosis, fields))
                       ELSE patients
            /\ UNCHANGED <<seq, logs, lock, txn, FERNET, hash_seed>>

UpdateLog(p) ==
    /\ pc[p] = "update_log"
    /\ AuditAndReturn(p, "update_patient", <<"patient_id=", local[p].patient_id>>, 0)
    /\ UNCHANGED <<patients, seq, lock, txn, FERNET, hash_seed>>

(* delete_patient: _require_role and the DELETE, then the audit entry *)
DeletePatient(p, patient_id, acted_by) ==
    LET call == Call("delete_patient", acted_by, Null, patient_id, NoRaw) IN
    /\ Idle(p)
    /\ IF ~RoleAllowed(acted_by, AllowedRoles(call.op, Null))
       THEN Deny(p, call)
       ELSE /\ HasRoom
            /\ lock = NoProc
            /\ Goto(p, call, "delete_log")
            /\ patients' = DeleteWhere(patients, patient_id)
            /\ UNCHANGED <<seq, logs, lock, txn, FERNET, hash_seed>>

DeleteLog(p) ==
    /\ pc[p] = "delete_log"
    /\ AuditAndReturn(p, "delete_patient", <<"patient_id=", local[p].patient_id>>, 0)
    /\ UNCHANGED <<patients, seq, lock, txn, FERNET, hash_seed>>

(* refresh_anonymized_fields: _require_role and the SELECT (fetchall, no
   transaction open yet), the loop, the commit, then the audit entry *)
RefreshAnonymizedFields(p, acted_by) ==
    LET call == Call("refresh_anonymized_fields", acted_by, Null, 0, NoRaw) IN
    /\ Idle(p)
    /\ IF ~RoleAllowed(acted_by, AllowedRoles(call.op, Null))
       THEN Deny(p, call)
       ELSE /\ HasRoom
            /\ Goto(p, [call EXCEPT !.rows = ScanFrom(patients, 1, seq),
                                    !.idx = 1],
                    "refresh_loop")
            /\ UNCHANGED <<patients, seq, logs, lock, txn, FERNET, hash_seed>>

\* the loop body's UPDATE for one fetched row, applied to the table the
\* transaction sees (no row is touched when the id is gone)
RefreshedTable(table, row, diagnosis_plain) ==
    IF row.patient_id \in DOMAIN table
    THEN UpdateWhere(table, row.patient_id,
             RemaskedRow(table[row.patient_id],
                 _anonymized_fields(row.name, row.contact, diagnosis_plain)))
    ELSE table

\* one turn of the loop: decrypt, re-mask, UPDATE inside the write transaction
\* (the first UPDATE opens it); an exception leaves the block without commit
RefreshRow(p) ==
    /\ pc[p] = "refresh_loop"
    /\ local[p].idx <= Len(local[p].rows)
    /\ LET row == local[p].rows[local[p].idx]
           diagnosis_plain == decrypt_sensitive(FERNET, row.diagnosis)
           table == IF lock = p THEN txn ELSE patients
       IN  IF diagnosis_plain = InvalidToken
           THEN /\ lock' = IF lock = p THEN NoProc ELSE lock
                /\ txn' = IF lock = p THEN EmptyTable ELSE txn
                /\ Return(p, local[p], "InvalidToken", 0, <<>>)
                /\ patients' = get_connection(patients, table, TRUE)
           ELSE /\ lock \in {p, NoProc}
                /\ lock' = p
                /\ txn' = RefreshedTable(table, row, diagnosis_plain)
                /\ Goto(p, [local[p] EXCEPT !.idx = @ + 1], "refresh_loop")
                /\ UNCHANGED patients
    /\ UNCHANGED <<seq, logs, FERNET, hash_seed>>

\* conn.commit() on leaving the block
RefreshCommit(p) ==
    /\ pc[p] = "refresh_loop"
    /\ local[p].idx > Len(local[p].rows)
    /\ lock' = IF lock = p THEN NoProc ELSE lock
    /\ txn' = IF lock = p THEN EmptyTable ELSE txn
    /\ Goto(p, local[p], "refresh_log")
    /\ patients' = get_connection(patients, IF lock = p THEN txn ELSE patients,
                                  FALSE)
    /\ UNCHANGED <<seq, logs, FERNET, hash_seed>>

RefreshLog(p) ==
    /\ pc[p] = "refresh_log"
    /\ AuditAndReturn(p, "refresh_anonymization",
                      <<"Recomputed anonymized fields for all patients">>, 0)
    /\ UNCHANGED <<patients, seq, lock, txn, FERNET, hash_seed>>

(* --------------------------- specifications --------------------------- *)
Step(p) ==
    \/ \E view \in ViewArgs, who \in Identities : ListPatients(p, view, who)
    \/ \E id \in PatientIds : GetPatient(p, id)
    \/ \E raw \in RawInputs, who \in Identities : CreatePatient(p, raw, who)
    \/ CreateLog(p)
    \/ \E id \in PatientIds, raw \in RawInputs, who \in Identities :
          UpdatePatient(p, id, raw, who)
    \/ UpdateLog(p)
    \/ \E id \in PatientIds, who \in Identities : DeletePatient(p, id, who)
    \/ DeleteLog(p)
    \/ \E who \in Identities : RefreshAnonymizedFields(p, who)
    \/ RefreshRow(p)
    \/ RefreshCommit(p)
    \/ RefreshLog(p)

\* calls made one after another: a single session makes every call
Next == Step("s1")

Spec == Init /\ [][Next]_vars

\* concurrent sessions that create, update and read records, and nothing else
NextUpdates ==
    \E p \in Procs :
       \/ \E view \in ViewArgs, who \in Identities : ListPatients(p, view, who)
       \/ \E id \in PatientIds : GetPatient(p, id)
       \/ \E raw \in RawInputs, who \in Identities : CreatePatient(p, raw, who)
       \/ CreateLog(p)
       \/ \E id \in PatientIds, raw \in RawInputs, who \in Identities :
             UpdatePatient(p, id, raw, who)
       \/ UpdateLog(p)

SpecUpdates == Init /\ [][NextUpdates]_vars

\* concurrent sessions that create and update records and run the sweep
NextSweep ==
    \E p \in Procs :
       \/ \E raw \in RawInputs, who \in Identities : CreatePatient(p, raw, who)
       \/ CreateLog(p)
       \/ \E id \in PatientIds, raw \in RawInputs, who \in Identities :
             UpdatePatient(p, id, raw, who)
       \/ UpdateLog(p)
       \/ \E who \in Identities : RefreshAnonymizedFields(p, who)
       \/ RefreshRow(p)
       \/ RefreshCommit(p)
       \/ RefreshLog(p)

SpecSweep == Init /\ [][NextSweep]_vars

(* ------------------- the codec and the contact mask ------------------- *)
\* FERNET_KEY as the environment may give it: unset, not a key, or a key
KeyEnvs == {Null, "not-a-key", "k1", "k2"}

\* the module's set-up of FERNET: None unless FERNET_KEY is a valid key
FernetOf(fernet_key) == IF fernet_key \in {"k1", "k2"} THEN fernet_key ELSE Null

MaxContactLen == 4
ContactChars == {"5", "1", "-"}
RECURSIVE SeqsUpTo(_, _)
SeqsUpTo(chars, n) ==
    IF n = 0 THEN {<<>>}
    ELSE LET shorter == SeqsUpTo(chars, n - 1)
         IN  shorter \cup {Append(t, c) : t \in shorter, c \in chars}

\* contacts handed to mask_contact
ContactInputs ==
    SeqsUpTo(ContactChars, MaxContactLen)
      \cup { <<"5", "5", "5", "-", "1", "2", "3", "4">>, <<"a", "b", "c">>,
             <<"a", "9", "b">>, <<"0", "1", "2", "3", "4", "5">> }

\* strings handed to the codec: plaintexts, and tokens of either key
Plaintexts == {"flu", "asthma", ""}
CodecInputs ==
    {Str(t) : t \in Plaintexts}
      \cup {Token(k, iv, t) : k \in {"k1", "k2"}, iv \in Nonces, t \in Plaintexts}

\* a direct call of one of the module's functions: its argument, its result
FunctionCall(op, contact, value, outcome, result) ==
    /\ local' = [local EXCEPT !["s1"] =
                    Call(op, NoIdentity, Null, 0,
                         [name |-> Null, contact |-> contact, diagnosis |-> value])]
    /\ ret' = [op |-> op, outcome |-> outcome, id |-> 0, records |-> result]
    /\ UNCHANGED <<patients, seq, logs, lock, txn, FERNET, hash_seed, pc>>

MaskContact(contact) ==
    /\ Idle("s1")
    /\ FunctionCall("mask_contact", contact, Str(Null), "ok",
                    <<mask_contact(contact)>>)

\* encrypt_sensitive is handed plaintexts
EncryptSensitive(value, iv) ==
    /\ Idle("s1")
    /\ ~value.enc
    /\ FunctionCall("encrypt_sensitive", <<>>, value, "ok",
                    <<encrypt_sensitive(FERNET, iv, value)>>)

\* decrypt_sensitive is handed any string: a plaintext, a token of the
\* process's key (what encrypt_sensitive returns) or of another key
DecryptSensitive(value) ==
    LET plain == decrypt_sensitive(FERNET, value) IN
    /\ Idle("s1")
    /\ IF plain = InvalidToken
       THEN FunctionCall("decrypt_sensitive", <<>>, value, "InvalidToken", <<>>)
       ELSE FunctionCall("decrypt_sensitive", <<>>, value, "ok", <<plain>>)

InitFunctions ==
    /\ patients = EmptyTable
    /\ seq = 0
    /\ logs = EmptyBag
    /\ lock = NoProc
    /\ txn = EmptyTable
    /\ FERNET \in {FernetOf(fernet_key) : fernet_key \in KeyEnvs}
    /\ hash_seed \in Seeds
    /\ pc = [p \in Procs |-> "idle"]
    /\ local = [p \in Procs |-> NoLocal]
    /\ ret = NoReturn

NextFunctions ==
    \/ \E contact \in ContactInputs : MaskContact(contact)
    \/ \E value \in CodecInputs, iv \in Nonces : EncryptSensitive(value, iv)
    \/ \E value \in CodecInputs : DecryptSensitive(value)

SpecFunctions == InitFunctions /\ [][NextFunctions]_vars

(* ------------------------- the process restarts ----------------------- *)
\* The store is a file that outlives the process.  A new process imports the
\* module again: FERNET is set up from the FERNET_KEY of its environment and
\* the interpreter draws its hash seed.  No call is under way then.
Restart(fernet_key, seed) ==
    /\ \A p \in Procs : Idle(p)
    /\ lock = NoProc
    /\ FERNET' = FernetOf(fernet_key)
    /\ hash_seed' = seed
    /\ ret' = NoReturn
    /\ UNCHANGED <<patients, seq, logs, lock, txn, pc, local>>

\* the callers of this deployment: an administrator and a doctor
Staff == {Identity(1, "admin"), Identity(2, "doctor")}

\* one session that creates and lists records and runs the sweep, in a
\* process that may be restarted between calls
NextRestart ==
    \/ \E view \in ViewArgs, who \in Staff : ListPatients("s1", view, who)
    \/ \E raw \in RawInputs, who \in Staff : CreatePatient("s1", raw, who)
    \/ CreateLog("s1")
    \/ \E who \in Staff : RefreshAnonymizedFields("s1", who)
    \/ RefreshRow("s1")
    \/ RefreshCommit("s1")
    \/ RefreshLog("s1")
    \/ \E fernet_key \in KeyEnvs, seed \in Seeds : Restart(fernet_key, seed)

SpecRestart == Init /\ [][NextRestart]_vars

(* ============================ properties ============================== *)
\* the access table as the specification states it, per operation
SpecAllowed(op, view) ==
    CASE op = "list_patients" /\ view = "raw" -> {"admin", "receptionist"}
      [] op = "list_patients" /\ view = "anonymized" -> {"admin", "doctor"}
      [] op = "create_patient" -> {"admin", "receptionist"}
      [] op = "update_patient" -> {"admin", "receptionist"}
      [] op = "delete_patient" -> {"admin"}
      [] op = "refresh_anonymized_fields" -> {"admin"}

\* the specification admits a caller that has an identity whose role is allowed
SpecAdmits(who, op, view) == ~who.is_none /\ who.role \in SpecAllowed(op, view)

GatedViews == {"raw", "anonymized"}

\* the step just taken surfaced a denial to the caller
Denied == ret.outcome = "PermissionError"

\* the step is session p starting a call of op (the call ends in the same
\* step or goes on to its next statement)
Starts(p, op) == pc[p] = "idle" /\ (ret'.op = op \/ local'[p].op = op)

(* C1: for each of the six gated operations and each caller, the call is
   denied exactly when the caller has no identity or its role is outside the
   operation's allowed set (view raw: admin, receptionist; view anonymized:
   admin, doctor; create and update: admin, receptionist; delete: admin;
   sweep: admin). *)
C1_AdmittedIffRoleInTable ==
    [][\A p \in Procs :
         /\ Starts(p, "list_patients") =>
              (\A who \in Identities, view \in GatedViews :
                 \/ Denied' <=> ~SpecAdmits(who, "list_patients", view)
                 \/ ~ListPatients(p, view, who))
         /\ Starts(p, "create_patient") =>
              (\A who \in Identities, raw \in RawInputs :
                 \/ Denied' <=> ~SpecAdmits(who, "create_patient", Null)
                 \/ ~CreatePatient(p, raw, who))
         /\ Starts(p, "update_patient") =>
              (\A who \in Identities, id \in PatientIds, raw \in RawInputs :
                 \/ Denied' <=> ~SpecAdmits(who, "update_patient", Null)
                 \/ ~UpdatePatient(p, id, raw, who))
         /\ Starts(p, "delete_patient") =>
              (\A who \in Identities, id \in PatientIds :
                 \/ Denied' <=> ~SpecAdmits(who, "delete_patient", Null)
                 \/ ~DeletePatient(p, id, who))
         /\ Starts(p, "refresh_anonymized_fields") =>
              (\A who \in Identities :
                 \/ Denied' <=> ~SpecAdmits(who, "refresh_anonymized_fields", Null)
                 \/ ~RefreshAnonymizedFields(p, who))
      ]_vars

\* a receptionist's delete has just been denied, after an admin's delete and
\* a receptionist's create went through
C1_Witness ==
    /\ ret.op = "delete_patient" /\ Denied
    /\ \E e \in BagToSet(logs) :
         e.role = "receptionist" /\ e.action = "unauthorized_access"
    /\ \E e \in BagToSet(logs) :
         e.role = "receptionist" /\ e.action = "create_patient"
    /\ \E e \in BagToSet(logs) :
         e.role = "admin" /\ e.action = "delete_patient"

(* C2 (as stated): every step that surfaces a denial appends exactly one
   unauthorized_access event, whoever the denied caller is. *)
C2_EveryDenialLogged ==
    [][Denied' =>
         LET added == logs' (-) logs IN
         /\ logs' = logs (+) added
         /\ BagCardinality(added) = 1
         /\ \A e \in BagToSet(added) : e.action = "unauthorized_access"
      ]_vars

(* C3: a create, update, delete or sweep call by a caller outside the allowed
   set leaves the patients table, its id counter and any open transaction as
   they were, and a list call by such a caller returns no records. *)
C3_DeniedLeavesStore ==
    [][\A p \in Procs :
         LET untouched == /\ patients' = patients
                          /\ seq' = seq
                          /\ txn' = txn
                          /\ lock' = lock
                          /\ pc'[p] = "idle"
         IN
         /\ Starts(p, "list_patients") =>
              (\A who \in Identities, view \in GatedViews :
                 (~SpecAdmits(who, "list_patients", view)
                    /\ ListPatients(p, view, who))
                   => (ret'.records = <<>> /\ ret'.outcome # "ok"))
         /\ Starts(p, "create_patient") =>
              (\A who \in Identities, raw \in RawInputs :
                 (~SpecAdmits(who, "create_patient", Null)
                    /\ CreatePatient(p, raw, who))
                   => untouched)
         /\ Starts(p, "update_patient") =>
              (\A who \in Identities, id \in PatientIds, raw \in RawInputs :
                 (~SpecAdmits(who, "update_patient", Null)
                    /\ UpdatePatient(p, id, raw, who))
                   => untouched)
         /\ Starts(p, "delete_patient") =>
              (\A who \in Identities, id \in PatientIds :
                 (~SpecAdmits(who, "delete_patient", Null)
                    /\ DeletePatient(p, id, who))
                   => untouched)
         /\ Starts(p, "refresh_anonymized_fields") =>
              (\A who \in Identities :
                 (~SpecAdmits(who, "refresh_anonymized_fields", Null)
                    /\ RefreshAnonymizedFields(p, who))
                   => untouched)
      ]_vars

\* an update has just been denied while the table holds a record
C3_Witness ==
    /\ ret.op = "update_patient" /\ Denied
    /\ DOMAIN patients # {}

\* a stored row whose derived columns are the masks of its raw columns
DerivedFresh(row) ==
    /\ row.anonymized_name = mask_name(row.name)
    /\ row.anonymized_contact = mask_contact(row.contact)
    /\ row.diagnosis_masked
         = mask_diagnosis(decrypt_sensitive(FERNET, row.diagnosis))

(* C4: when calls are made one after another, every stored record's derived
   columns are the masks of its raw columns (the diagnosis mask taken of the
   decrypted stored diagnosis), in every reachable state. *)
C4_DerivedNeverStale ==
    \A id \in DOMAIN patients : DerivedFresh(patients[id])

\* a record is stored after an update and a sweep have both been made
C4_Witness ==
    /\ DOMAIN patients # {}
    /\ \E e \in BagToSet(logs) : e.action = "update_patient"
    /\ \E e \in BagToSet(logs) : e.action = "refresh_anonymization"

(* C5 (as stated): an update or delete by an admitted caller naming an id that
   is not stored ends at once in NotFound, and get_patient on an id that is
   not stored returns None. *)
C5_MissingIdRejected ==
    [][\A p \in Procs, id \in PatientIds :
         id \notin DOMAIN patients =>
           /\ Starts(p, "update_patient") =>
                (\A who \in Identities, raw \in RawInputs :
                   (SpecAdmits(who, "update_patient", Null)
                      /\ UpdatePatient(p, id, raw, who))
                     => (pc'[p] = "idle" /\ ret'.outcome = "NotFound"))
           /\ Starts(p, "delete_patient") =>
                (\A who \in Identities :
                   (SpecAdmits(who, "delete_patient", Null)
                      /\ DeletePatient(p, id, who))
                     => (pc'[p] = "idle" /\ ret'.outcome = "NotFound"))
           /\ (Starts(p, "get_patient") /\ GetPatient(p, id))
                => (ret'.outcome = "ok" /\ ret'.records = <<>>)
      ]_vars

\* get_patient alone: an id that is not stored yields None
C5_GetMissingIsNone ==
    [][\A p \in Procs, id \in PatientIds :
         (id \notin DOMAIN patients /\ Starts(p, "get_patient") /\ GetPatient(p, id))
           => (ret'.outcome = "ok" /\ ret'.records = <<>>)
      ]_vars

(* C6 (as stated): with sessions that update and sweep concurrently,
   whenever every call has completed, every stored record's derived columns
   are the masks of its current raw columns. *)
C6_SweepSerializable ==
    (\A p \in Procs : pc[p] = "idle")
      => \A id \in DOMAIN patients : DerivedFresh(patients[id])

\* the raw columns of a stored row
RawOf(row) == <<row.name, row.contact, row.diagnosis>>

\* a record a reader returned carries derived fields that belong to its raw
\* fields (the anonymized view shows no raw field: its derived fields are
\* those of a stored record that is fresh)
SeenWhole(r) ==
    IF "name" \in DOMAIN r
    THEN /\ r.anonymized_name = mask_name(r.name)
         /\ r.anonymized_contact = mask_contact(r.contact)
         /\ r.diagnosis_masked = mask_diagnosis(r.diagnosis)
    ELSE /\ r.patient_id \in DOMAIN patients
         /\ DerivedFresh(patients[r.patient_id])
         /\ r = AnonymizedView(patients[r.patient_id])

(* C7: with sessions creating, updating and reading concurrently, every step
   that inserts a record or changes a record's raw columns leaves that record
   with the masks of its new raw columns, and every record get_patient or
   list_patients returns carries the masks of the raw values it shows. *)
C7_RawAndDerivedTogether ==
    [][/\ \A id \in DOMAIN patients' :
            (id \notin DOMAIN patients
               \/ RawOf(patients'[id]) # RawOf(patients[id]))
              => DerivedFresh(patients'[id])
       /\ (ret'.op \in {"get_patient", "list_patients"} /\ ret'.outcome = "ok")
            => \A i \in DOMAIN ret'.records : SeenWhole(ret'.records[i])
      ]_vars

\* a reader has just been handed a record that one session's update wrote,
\* while that update is still under way and after another update completed
C7_Witness ==
    /\ ret.op = "get_patient" /\ ret.outcome = "ok" /\ Len(ret.records) = 1
    /\ \E p \in Procs :
         /\ pc[p] = "update_log"
         /\ local[p].patient_id = ret.records[1].patient_id
         /\ local[p].name = ret.records[1].name
    /\ \E e \in BagToSet(logs) : e.action = "update_patient"

\* the audit row of a write: the caller's user id and role, the action, the id
AuditEntry(who, action, patient_id) ==
    [user_id |-> who.user_id, role |-> who.role, action |-> action,
     details |-> <<"patient_id=", patient_id>>]

\* session p's call passes from one statement to the next, or returns
Leaves(p, label) == pc[p] = label /\ pc'[p] # label

(* C8: a create, update or delete call by an admitted caller writes no logs
   row while it changes the table and then, returning, appends exactly the one
   row that carries the caller's user id and role, the action's name and the
   patient id concerned; and no step of any call removes or changes a row of
   the logs table. *)
C8_OneAuditEventPerWrite ==
    [][/\ logs \sqsubseteq logs'
       /\ \A p \in Procs :
            /\ Starts(p, "create_patient") =>
                 (\A who \in Identities, raw \in RawInputs :
                    (SpecAdmits(who, "create_patient", Null)
                       /\ CreatePatient(p, raw, who))
                      => /\ logs' = logs
                         /\ pc'[p] = "create_log"
                         /\ local'[p].who = who
                         /\ local'[p].patient_id = seq'
                         /\ seq' \in DOMAIN patients' \ DOMAIN patients)
            /\ Starts(p, "update_patient") =>
                 (\A who \in Identities, id \in PatientIds, raw \in RawInputs :
                    (SpecAdmits(who, "update_patient", Null)
                       /\ UpdatePatient(p, id, raw, who))
                      => /\ logs' = logs
                         /\ pc'[p] = "update_log"
                         /\ local'[p].who = who
                         /\ local'[p].patient_id = id)
            /\ Starts(p, "delete_patient") =>
                 (\A who \in Identities, id \in PatientIds :
                    (SpecAdmits(who, "delete_patient", Null)
                       /\ DeletePatient(p, id, who))
                      => /\ logs' = logs
                         /\ pc'[p] = "delete_log"
                         /\ local'[p].who = who
                         /\ local'[p].patient_id = id)
            /\ Leaves(p, "create_log") =>
                 /\ pc'[p] = "idle" /\ ret'.outcome = "ok"
                 /\ logs' = logs (+) SetToBag({AuditEntry(local[p].who,
                                "create_patient", local[p].patient_id)})
            /\ Leaves(p, "update_log") =>
                 /\ pc'[p] = "idle" /\ ret'.outcome = "ok"
                 /\ logs' = logs (+) SetToBag({AuditEntry(local[p].who,
                                "update_patient", local[p].patient_id)})
            /\ Leaves(p, "delete_log") =>
                 /\ pc'[p] = "idle" /\ ret'.outcome = "ok"
                 /\ logs' = logs (+) SetToBag({AuditEntry(local[p].who,
                                "delete_patient", local[p].patient_id)})
      ]_vars

\* a create, an update and a delete have each left their row in the logs
C8_Witness ==
    /\ ret.op = "delete_patient" /\ ret.outcome = "ok"
    /\ \E e \in BagToSet(logs) : e = AuditEntry(Identity(3, "receptionist"),
                                               "create_patient", 1)
    /\ \E e \in BagToSet(logs) : e.action = "update_patient"
    /\ \E e \in BagToSet(logs) : e = AuditEntry(Identity(1, "admin"),
                                               "delete_patient", 1)

\* one whole run of the sweep's loop over fetched rows, from row i on
RECURSIVE SweepFrom(_, _, _)
SweepFrom(table, rows, i) ==
    IF i > Len(rows) THEN table
    ELSE SweepFrom(RefreshedTable(table, rows[i],
                       decrypt_sensitive(FERNET, rows[i].diagnosis)),
                   rows, i + 1)

\* the logs row of a sweep
SweepEntry(who) ==
    [user_id |-> who.user_id, role |-> who.role,
     action |-> "refresh_anonymization",
     details |-> <<"Recomputed anonymized fields for all patients">>]

(* C9: with calls made one after another, the table a sweep commits is the
   result of one run over the rows it fetched, and a further run over that
   table gives the same table again; an admitted sweep writes no logs row
   before it returns and, returning, appends exactly one
   refresh_anonymization row, however many rows it fetched. *)
C9_SweepIdempotentOneEvent ==
    [][\A p \in Procs :
         /\ Starts(p, "refresh_anonymized_fields") =>
              (\A who \in Identities :
                 (SpecAdmits(who, "refresh_anonymized_fields", Null)
                    /\ RefreshAnonymizedFields(p, who))
                   => (logs' = logs /\ pc'[p] = "refresh_loop"
                         /\ local'[p].who = who))
         /\ (pc[p] = "refresh_loop" /\ local'[p] # local[p]) => logs' = logs
         /\ Leaves(p, "refresh_loop") =>
              /\ pc'[p] = "refresh_log"
              /\ logs' = logs
              /\ patients' = SweepFrom(patients, local[p].rows, 1)
              /\ SweepFrom(patients', ScanFrom(patients', 1, seq'), 1) = patients'
         /\ Leaves(p, "refresh_log") =>
              /\ pc'[p] = "idle" /\ ret'.outcome = "ok"
              /\ logs' = logs (+) SetToBag({SweepEntry(local[p].who)})
      ]_vars

\* a second sweep in a row has just returned, over a stored record
C9_Witness ==
    /\ ret.op = "refresh_anonymized_fields" /\ ret.outcome = "ok"
    /\ DOMAIN patients # {}
    /\ CopiesIn(SweepEntry(Identity(1, "admin")), logs) = 2

\* the record get_patient is to return for values just written
Written(patient_id, name, contact, diagnosis) ==
    [patient_id |-> patient_id, name |-> name, contact |-> contact,
     diagnosis |-> diagnosis,
     anonymized_name |-> mask_name(name),
     anonymized_contact |-> mask_contact(contact),
     diagnosis_masked |-> mask_diagnosis(diagnosis)]

(* C10: with calls made one after another, when create_patient returns its
   id, and when update_patient returns for a stored id, get_patient on that
   id yields the name and contact supplied, the supplied diagnosis in
   plain form, and the masks of the supplied values. *)
C10_ReadYourWrite ==
    [][\A p \in Procs :
         /\ (Leaves(p, "create_log") /\ ret'.outcome = "ok") =>
              get_patient(FERNET, patients', ret'.id)
                = <<Written(ret'.id, local[p].name, local[p].contact,
                            local[p].diagnosis)>>
         /\ (Leaves(p, "update_log") /\ ret'.outcome = "ok"
               /\ local[p].patient_id \in DOMAIN patients') =>
              get_patient(FERNET, patients', local[p].patient_id)
                = <<Written(local[p].patient_id, local[p].name,
                            local[p].contact, local[p].diagnosis)>>
      ]_vars

\* an update of a stored, encrypted record has just returned
C10_Witness ==
    /\ ret.op = "update_patient" /\ ret.outcome = "ok"
    /\ FERNET # Null
    /\ \E id \in DOMAIN patients :
         /\ patients[id].diagnosis.enc
         /\ \E e \in BagToSet(logs) : e = AuditEntry(Identity(3, "receptionist"),
                                                    "update_patient", id)

\* the argument of the function call just made
Arg == local["s1"]

(* C12: with a key configured, decrypt applied to what encrypt returned for a
   string gives that string back; with no key, or a FERNET_KEY that is not a
   key, encrypt returns its argument and decrypt returns its argument. *)
C12_CodecRoundTrip ==
    [][/\ (ret'.op = "encrypt_sensitive" /\ FERNET = Null)
            => (ret'.outcome = "ok" /\ ret'.records = <<Arg'.diagnosis>>)
       /\ (ret'.op = "decrypt_sensitive" /\ FERNET = Null)
            => (ret'.outcome = "ok" /\ ret'.records = <<Arg'.diagnosis>>)
       /\ (ret.op = "encrypt_sensitive" /\ ret'.op = "decrypt_sensitive"
             /\ FERNET # Null /\ <<Arg'.diagnosis>> = ret.records)
            => (ret'.outcome = "ok" /\ ret'.records = <<Arg.diagnosis>>)
      ]_vars

\* under a key, decrypt has just given back the plaintext of a token
C12_Witness ==
    /\ FERNET # Null
    /\ ret.op = "decrypt_sensitive" /\ ret.outcome = "ok"
    /\ Arg.diagnosis.enc
    /\ ret.records = <<Str("flu")>>

\* the digit characters of a contact, in order
ContactDigits(contact) ==
    SelectSeq(contact, LAMBDA c : c \in {"0", "1", "2", "3", "4", "5", "6", "7",
                                         "8", "9"})

\* the mask the specification gives a contact: the fixed prefix, then the
\* last four digits (all of them when there are one to three), or 0000
SpecMaskContact(contact) ==
    LET digits == ContactDigits(contact)
        n == Len(digits)
        kept == IF n < 4 THEN n ELSE 4
    IN  <<"X", "X", "X", "-", "X", "X", "X", "-">>
          \o (IF n = 0 THEN <<"0", "0", "0", "0">>
              ELSE [i \in 1..kept |-> digits[n - kept + i]])

(* C13: mask_contact returns, for every contact (the empty one included),
   XXX-XXX- followed by the contact's last four digit characters in order,
   by all its digits when it has one to three, and by 0000 when it has none;
   it never raises. *)
C13_MaskContact ==
    ret.op = "mask_contact"
      => (ret.outcome = "ok" /\ ret.records = <<SpecMaskContact(Arg.contact)>>)

\* mask_contact("555-1234") has just returned XXX-XXX-1234
C13_Witness ==
    /\ ret.op = "mask_contact"
    /\ Arg.contact = <<"5", "5", "5", "-", "1", "2", "3", "4">>
    /\ ret.records = << <<"X", "X", "X", "-", "X", "X", "X", "-",
                          "1", "2", "3", "4">> >>

\* the fields the specification lets the anonymized view carry (createdAt is
\* a column the store fills; the rows here do not carry it)
SpecAnonymized(row) ==
    [patient_id |-> row.patient_id, anonymized_name |-> row.anonymized_name,
     anonymized_contact |-> row.anonymized_contact,
     diagnosis_masked |-> row.diagnosis_masked]

Doctor == Identity(2, "doctor")

(* C11: a doctor's list_patients(view = raw) is denied; the same doctor's
   list_patients(view = anonymized) succeeds and returns, for each stored
   record and in some order of the records, exactly the record's id and its
   three anonymized columns, so the result is a function of those columns
   alone and two stores that agree on them give the doctor the same result,
   whatever their raw name, contact and diagnosis are. *)
C11_DoctorSeesAnonymizedOnly ==
    [][Starts("s1", "list_patients") =>
         /\ \/ ret'.outcome = "PermissionError" /\ ret'.records = <<>>
            \/ ~ListPatients("s1", "raw", Doctor)
         /\ \/ /\ ret'.outcome = "ok"
               /\ \E order \in NewestFirst(patients) :
                     ret'.records =
                        [i \in DOMAIN order |-> SpecAnonymized(patients[order[i]])]
            \/ ~ListPatients("s1", "anonymized", Doctor)
      ]_vars

\* the sweep's failure has just surfaced to the caller
SweepFailed ==
    ret.op = "refresh_anonymized_fields" /\ ret.outcome = "InvalidToken"

(* C14: a sweep that fails because a stored diagnosis does not decrypt leaves
   nothing behind: from the start of the call to the failure no step changes
   the committed patients table or the logs table, and the failure leaves no
   transaction open, so every record is as it was before the call (also when
   earlier records had already been rewritten inside the transaction) and no
   refresh_anonymization entry is written. *)
C14_FailedSweepAllOrNothing ==
    [][/\ (pc'["s1"] = "refresh_loop" \/ SweepFailed') =>
            (patients' = patients /\ logs' = logs)
       /\ SweepFailed' => (lock' = NoProc /\ txn' = EmptyTable)
      ]_vars

\* a sweep has just failed on record 2 after it had rewritten record 1 inside
\* its transaction with masks that differ from the stored ones
C14_Witness ==
    /\ SweepFailed
    /\ DOMAIN patients = {1, 2}
    /\ decrypt_sensitive(FERNET, patients[1].diagnosis) # InvalidToken
    /\ ~DerivedFresh(patients[1])
    /\ decrypt_sensitive(FERNET, patients[2].diagnosis) = InvalidToken

====
